---- MODULE Spec2Model ----
(***************************************************************************)
(* Sentence segmentation of package util (src/unnamed/part_002):           *)
(* ExtractCompleteSentences, ExtractSmartSentences and the helpers they    *)
(* use, together with the two sync.Pool scratch-buffer pools.              *)
(*                                                                         *)
(* A Go string is modelled as the sequence of its runes; a rune is a       *)
(* one-character string, the full-width punctuation being written by code  *)
(* point ("U+3002" for the ideographic full stop).  Go indices are 0-based *)
(* and are kept as such: At(text, i) is text[i] of the source.             *)
(***************************************************************************)
EXTENDS Integers, Sequences, FiniteSets, TLC

VARIABLES
    text,       \* the text handed to the session / to the call
    minLen,     \* minLen argument of ExtractSmartSentences
    maxLen,     \* maxLen argument of ExtractSmartSentences
    isFirst,    \* isFirst argument of ExtractSmartSentences
    fed,        \* number of runes of text the caller has passed on so far
    remaining,  \* the remainder the caller carries to its next call
    emitted,    \* every sentence returned so far, over all calls
    call,       \* the last call of ExtractSmartSentences: input and results
    eager,      \* the last call of ExtractCompleteSentences: input and results
    pc,         \* per goroutine: position in ExtractSmartSentences
    job,        \* per goroutine: the text its call works on
    builder,    \* per goroutine: the *strings.Builder it got (0: none)
    tempRunesPtr, \* per goroutine: the *[]rune it got (0: none)
    builderPool,  \* the builders lying in builderPool
    runeSlicePool, \* the rune slices lying in runeSlicePool
    allocated,  \* [builders, slices]: how many New() has made so far
    puts,       \* per goroutine: [builder, slice]: Put calls of its call
    cuts        \* the positions of text at which the caller has cut a chunk

vars == <<text, minLen, maxLen, isFirst, fed, remaining, emitted, call, eager,
          pc, job, builder, tempRunesPtr, builderPool, runeSlicePool,
          allocated, puts, cuts>>

sessionVars == <<text, minLen, maxLen, isFirst, fed, remaining, emitted, call,
                 cuts>>
poolVars == <<pc, job, builder, tempRunesPtr, builderPool, runeSlicePool,
              allocated, puts>>

-----------------------------------------------------------------------------
(* Bounds of the model *)

MaxTextLen == 4
MaxMinLen == 2
MaxWindow == 3
MaxListTail == 2
MaxChunkTextLen == 4
MaxEagerLen == 4
MaxBuffers == 3
NumGoroutines == 2

-----------------------------------------------------------------------------
(* Runes and the punctuation tables *)

At(t, i) == t[i + 1]

Digits == {"0", "1", "2", "3", "4", "5", "6", "7", "8", "9"}

punctuationMap ==
    {"U+3002", "U+FF1F", "U+FF01", "U+FF1B", "U+FF1A", "\n",
     ".", "?", "!", ";", ":"}

firstPunctuation ==
    {"U+FF0C", ",",
     "U+3002", "U+FF1F", "U+FF01", "U+FF1B", "U+FF1A", "\n",
     ".", "?", "!", ";", ":"}

sentenceEndPunctuation == {".", "U+3002", "!", "U+FF01", "?", "U+FF1F", "\n"}

sentencePausePunctuation == {",", "U+FF0C", ";", "U+FF1B", ":", "U+FF1A"}

IsSentenceEndPunctuationWithPause(r) ==
    r \in sentenceEndPunctuation \cup {";", "U+FF1B", ":", "U+FF1A"}

IsSentenceEndPunctuation(r) == r \in sentenceEndPunctuation

IsSentencePausePunctuation(r) == r \in sentencePausePunctuation

(* unicode.IsSpace on the runes strings.TrimSpace strips *)
unicodeSpace == {" ", "\t", "\n", "\r", "U+000B", "U+000C", "U+0085", "U+00A0"}

RECURSIVE TrimLeft(_, _)
TrimLeft(s, ws) ==
    IF s # <<>> /\ Head(s) \in ws THEN TrimLeft(Tail(s), ws) ELSE s

RECURSIVE TrimRight(_, _)
TrimRight(s, ws) ==
    IF s # <<>> /\ s[Len(s)] \in ws
    THEN TrimRight(SubSeq(s, 1, Len(s) - 1), ws) ELSE s

TrimSpace(s) == TrimRight(TrimLeft(s, unicodeSpace), unicodeSpace)

-----------------------------------------------------------------------------
(* isNumberPrefix *)

MaxOrdinalDigits == 3

RECURSIVE SkipBlanksBack(_, _)
SkipBlanksBack(t, start) ==
    IF start >= 0 /\ (At(t, start) = " " \/ At(t, start) = "\t")
    THEN SkipBlanksBack(t, start - 1) ELSE start

RECURSIVE CountDigitsBack(_, _, _)
CountDigitsBack(t, start, digitCount) ==
    IF start >= 0 /\ At(t, start) \in Digits
    THEN IF digitCount + 1 > MaxOrdinalDigits
         THEN [start |-> start, digitCount |-> digitCount + 1, tooMany |-> TRUE]
         ELSE CountDigitsBack(t, start - 1, digitCount + 1)
    ELSE [start |-> start, digitCount |-> digitCount, tooMany |-> FALSE]

isNumberPrefix(t, pos) ==
    IF pos <= 0 \/ At(t, pos) # "."
    THEN FALSE
    ELSE LET d == CountDigitsBack(t, SkipBlanksBack(t, pos - 1), 0)
         IN  IF d.tooMany THEN FALSE
             ELSE IF d.start >= 0 /\ At(t, d.start) # " "
                     /\ At(t, d.start) # "\t" /\ At(t, d.start) # "\n"
                  THEN FALSE
                  ELSE d.digitCount > 0

-----------------------------------------------------------------------------
(* trimSpaceRunes *)

RECURSIVE TrimStartIndex(_, _, _)
TrimStartIndex(t, start, end) ==
    IF start <= end /\ At(t, start) \in {" ", "\t", "\n"}
    THEN TrimStartIndex(t, start + 1, end) ELSE start

RECURSIVE TrimEndIndexKeepNewline(_, _, _)
TrimEndIndexKeepNewline(t, start, end) ==
    IF end >= start /\ At(t, end) \in {" ", "\t"}
    THEN TrimEndIndexKeepNewline(t, start, end - 1) ELSE end

RECURSIVE TrimEndIndex(_, _, _)
TrimEndIndex(t, start, end) ==
    IF end >= start /\ At(t, end) \in {" ", "\t", "\n"}
    THEN TrimEndIndex(t, start, end - 1) ELSE end

trimSpaceRunes(t) ==
    LET start == TrimStartIndex(t, 0, Len(t) - 1)
        end   == TrimEndIndex(t, start, Len(t) - 1)
    IN  IF start > end THEN <<>> ELSE SubSeq(t, start + 1, end + 1)

-----------------------------------------------------------------------------
(* findNextSplitPoint *)

RECURSIVE SkipBlanksFwd(_, _, _)
SkipBlanksFwd(t, nextPos, endPos) ==
    IF nextPos < endPos /\ (At(t, nextPos) = " " \/ At(t, nextPos) = "\t")
    THEN SkipBlanksFwd(t, nextPos + 1, endPos) ELSE nextPos

RECURSIVE ScanWindow(_, _, _, _)
ScanWindow(t, i, endPos, separatorMap) ==
    IF i >= endPos THEN -1
    ELSE IF At(t, i) = "\n"
         THEN LET nextPos == SkipBlanksFwd(t, i + 1, endPos)
              IN  IF nextPos < endPos - 2 /\ At(t, nextPos) \in Digits
                  THEN i
                  ELSE ScanWindow(t, i + 1, endPos, separatorMap)
         ELSE IF At(t, i) \in separatorMap
              THEN i
              ELSE ScanWindow(t, i + 1, endPos, separatorMap)

RECURSIVE ScanBeyond(_, _, _)
ScanBeyond(t, i, separatorMap) ==
    IF i >= Len(t) THEN -1
    ELSE IF At(t, i) = "\n" \/ At(t, i) \in separatorMap
         THEN i
         ELSE ScanBeyond(t, i + 1, separatorMap)

WindowEnd(t, startPos, maxL) ==
    IF startPos + maxL > Len(t) THEN Len(t) ELSE startPos + maxL

findNextSplitPoint(t, startPos, maxL, separatorMap) ==
    LET endPos == WindowEnd(t, startPos, maxL)
        inWindow == ScanWindow(t, startPos, endPos, separatorMap)
    IN  IF inWindow # -1 THEN inWindow
        ELSE IF endPos < Len(t) THEN ScanBeyond(t, endPos, separatorMap)
        ELSE -1

-----------------------------------------------------------------------------
(* ExtractSmartSentences *)

AlwaysFirstPunctuation(first) == firstPunctuation

SeparatorMap(first) == IF first THEN firstPunctuation ELSE punctuationMap

AcceptsAnyLength(segment, minL, separatorMap) ==
    Len(segment) > 0 /\ segment[Len(segment)] \in separatorMap

Accepts(segment, minL, separatorMap) ==
    Len(segment) >= minL /\ segment[Len(segment)] \in separatorMap

RECURSIVE SkipSpace(_, _)
SkipSpace(t, startPos) ==
    IF startPos < Len(t) /\ At(t, startPos) \in {" ", "\t", "\n"}
    THEN SkipSpace(t, startPos + 1) ELSE startPos

(* The loop of ExtractSmartSentences.  steps is a history of the loop's    *)
(* iterations (where it started, what findNextSplitPoint returned, the     *)
(* trimmed segment, whether it was accepted); the code keeps no such list. *)
RECURSIVE SmartLoop(_, _, _, _, _, _, _, _)
SmartLoop(t, minL, maxL, separatorMap, startPos0, sentences, rem, steps) ==
    LET out == [sentences |-> sentences, remaining |-> rem, steps |-> steps]
    IN
    IF startPos0 >= Len(t) THEN out
    ELSE
    LET startPos == SkipSpace(t, startPos0) IN
    IF startPos >= Len(t) THEN out
    ELSE
    LET splitPos == findNextSplitPoint(t, startPos, maxL, separatorMap) IN
    IF splitPos = -1
    THEN LET segment == trimSpaceRunes(SubSeq(t, startPos + 1, Len(t)))
         IN  [sentences |-> sentences,
              remaining |-> IF Len(segment) > 0 THEN segment ELSE rem,
              steps |-> Append(steps, [startPos |-> startPos, splitPos |-> -1,
                                       segment |-> segment, accepted |-> FALSE])]
    ELSE LET segment == trimSpaceRunes(SubSeq(t, startPos + 1, splitPos + 1))
             ok == Accepts(segment, minL, separatorMap)
             step == [startPos |-> startPos, splitPos |-> splitPos,
                      segment |-> segment, accepted |-> ok]
         IN  IF ok
             THEN SmartLoop(t, minL, maxL, separatorMap, splitPos + 1,
                            Append(sentences, segment), rem, Append(steps, step))
             ELSE SmartLoop(t, minL, maxL, separatorMap, splitPos + 1,
                            sentences,
                            IF Len(segment) > 0
                            THEN (IF Len(rem) > 0 THEN rem \o <<" ">> ELSE rem)
                                 \o segment
                            ELSE rem,
                            Append(steps, step))

ExtractSmartSentences(t, minL, maxL, first) ==
    SmartLoop(t, minL, maxL, SeparatorMap(first), 0, <<>>, <<>>, <<>>)

-----------------------------------------------------------------------------
(* ExtractCompleteSentences *)

RECURSIVE CompleteLoop(_, _, _, _)
CompleteLoop(t, i, sentences, currentSentence) ==
    IF i >= Len(t)
    THEN [sentences |-> sentences, remaining |-> TrimSpace(currentSentence)]
    ELSE LET cur == Append(currentSentence, At(t, i)) IN
         IF IsSentenceEndPunctuation(At(t, i))
         THEN LET sentence == TrimSpace(cur)
              IN  CompleteLoop(t, i + 1,
                               IF sentence # <<>> THEN Append(sentences, sentence)
                                                  ELSE sentences,
                               <<>>)
         ELSE CompleteLoop(t, i + 1, sentences, cur)

ExtractCompleteSentences(t) ==
    IF t = <<>> THEN [sentences |-> <<>>, remaining |-> <<>>]
    ELSE CompleteLoop(t, 0, <<>>, <<>>)

-----------------------------------------------------------------------------
(* Inputs *)

HiText ==
    <<"H", "i", ",", " ", "h", "o", "w", " ", "a", "r", "e", " ",
      "y", "o", "u", "?">>

ListText ==
    <<"1", ".", " ", "F", "i", "r", "s", "t", " ", "i", "t", "e", "m", "\n",
      "2", ".", " ", "S", "e", "c", "o", "n", "d", " ", "i", "t", "e", "m">>

HelloWorldText ==
    <<"H", "e", "l", "l", "o", " ", "w", "o", "r", "l", "d", ".">>

HelloText == <<"H", "e", "l", "l", "o">>

SmartAlphabet == {"a", "1", ".", ",", " ", "\n"}
ChunkAlphabet == {"a", "1", ".", " ", "\n"}
EagerAlphabet == {"a", " ", "\n", ".", "!", ";", "U+FF1A"}

TextsUpTo(alphabet, n) == UNION {[1..k -> alphabet] : k \in 0..n}

(* A line, a newline, an optional indent, a digit and what follows it *)
ListTexts ==
    {line \o <<"\n">> \o indent \o <<"1">> \o tail :
        line \in TextsUpTo({"a", ","}, 2) \ {<<>>},
        indent \in {<<>>, <<" ">>},
        tail \in TextsUpTo(SmartAlphabet, MaxListTail)}

NoCall ==
    [input |-> <<>>, sentences |-> <<>>, remaining |-> <<>>, steps |-> <<>>,
     done |-> FALSE]

Goroutines == 1..NumGoroutines

NoJob == [text |-> <<>>, exit |-> "none"]

PoolIdle ==
    /\ pc = [g \in Goroutines |-> "idle"]
    /\ job = [g \in Goroutines |-> NoJob]
    /\ builder = [g \in Goroutines |-> 0]
    /\ tempRunesPtr = [g \in Goroutines |-> 0]
    /\ builderPool = {}
    /\ runeSlicePool = {}
    /\ allocated = [builders |-> 0, slices |-> 0]
    /\ puts = [g \in Goroutines |-> [builder |-> 0, slice |-> 0]]

SessionStart ==
    /\ fed = 0
    /\ remaining = <<>>
    /\ emitted = <<>>
    /\ cuts = {}
    /\ call = NoCall

-----------------------------------------------------------------------------
(* One call of ExtractSmartSentences on the whole text *)

Init ==
    /\ \/ /\ text \in TextsUpTo(SmartAlphabet, MaxTextLen)
          /\ minLen \in 1..MaxMinLen
          /\ maxLen \in 1..MaxWindow
          /\ isFirst \in BOOLEAN
       \/ /\ text \in ListTexts
          /\ minLen \in 1..MaxMinLen
          /\ maxLen \in (MaxWindow + 1)..(MaxWindow + 3)
          /\ isFirst \in BOOLEAN
       \/ /\ text = HiText
          /\ minLen = 1
          /\ maxLen = 50
          /\ isFirst \in BOOLEAN
       \/ /\ text = ListText
          /\ minLen = 1
          /\ maxLen = 200
          /\ isFirst = FALSE
    /\ SessionStart
    /\ eager = NoCall
    /\ PoolIdle

(* ExtractSmartSentences(text, minLen, maxLen, isFirst) is called once *)
Call ==
    /\ ~call.done
    /\ LET r == ExtractSmartSentences(text, minLen, maxLen, isFirst)
       IN  /\ call' = [input |-> text, sentences |-> r.sentences,
                       remaining |-> r.remaining, steps |-> r.steps,
                       done |-> TRUE]
           /\ remaining' = r.remaining
           /\ emitted' = r.sentences
    /\ fed' = Len(text)
    /\ UNCHANGED <<text, minLen, maxLen, isFirst, cuts, eager>>
    /\ UNCHANGED poolVars

Next == Call

Spec == Init /\ [][Next]_vars

-----------------------------------------------------------------------------
(* Vocabulary of the properties *)

Whitespace == {" ", "\t", "\n"}

Commas == {",", "U+FF0C"}

StripWhitespace(s) == SelectSeq(s, LAMBDA r : r \notin Whitespace)

RECURSIVE Flatten(_)
Flatten(ss) == IF ss = <<>> THEN <<>> ELSE Head(ss) \o Flatten(Tail(ss))

IsInfix(a, b) ==
    \E i \in 0..(Len(b) - Len(a)) : SubSeq(b, i + 1, i + Len(a)) = a

(* The separator set the specification calls active *)
ActiveSet(first) ==
    IF first
    THEN {",", "U+FF0C", ".", "U+3002", "?", "U+FF1F", "!", "U+FF01",
          ";", "U+FF1B", ":", "U+FF1A", "\n"}
    ELSE {".", "U+3002", "?", "U+FF1F", "!", "U+FF01",
          ";", "U+FF1B", ":", "U+FF1A", "\n"}

(* ss occur in t from index from on, in this order and without overlap *)
RECURSIVE Embeds(_, _, _)
Embeds(t, ss, from) ==
    \/ ss = <<>>
    \/ \E p \in from..(Len(t) - Len(Head(ss)) + 1) :
          /\ SubSeq(t, p, p + Len(Head(ss)) - 1) = Head(ss)
          /\ Embeds(t, Tail(ss), p + Len(Head(ss)))

Steps == {call.steps[k] : k \in DOMAIN call.steps}

SplitSteps == {st \in Steps : st.splitPos # -1}

-----------------------------------------------------------------------------
(* C1: the sentences of one call, in order, followed by the remainder,     *)
(* have the non-whitespace content of the input text, in the same order.   *)
Reconstruction ==
    call.done =>
        StripWhitespace(Flatten(call.sentences) \o call.remaining)
            = StripWhitespace(call.input)

(* C2: a trimmed candidate segment that ends in an active separator but is *)
(* shorter than minLen is no sentence and lies, as trimmed, inside the     *)
(* returned remainder.                                                     *)
MinLenRejection ==
    call.done =>
        \A st \in Steps :
            ( /\ st.segment # <<>>
              /\ st.segment[Len(st.segment)] \in ActiveSet(isFirst)
              /\ Len(st.segment) < minLen )
            => /\ \A j \in DOMAIN call.sentences : call.sentences[j] # st.segment
               /\ IsInfix(st.segment, call.remaining)

(* C3: findNextSplitPoint never returns a period that isNumberPrefix       *)
(* recognises as an ordinal marker, and "1." and "2." are no sentences of  *)
(* the numbered-list example.                                              *)
OrdinalGuard ==
    call.done =>
        /\ \A st \in SplitSteps : ~isNumberPrefix(call.input, st.splitPos)
        /\ call.input = ListText =>
              \A j \in DOMAIN call.sentences :
                  call.sentences[j] \notin {<<"1", ".">>, <<"2", ".">>}

(* C5: without isFirst no split point is a comma and no sentence ends in   *)
(* one; with isFirst no comma is passed over; "Hi, how are you?" is split  *)
(* after "Hi," with isFirst and is one sentence without.                   *)
CommaOnlyWhenFirst ==
    call.done =>
        /\ ~isFirst =>
              /\ \A st \in SplitSteps : At(call.input, st.splitPos) \notin Commas
              /\ \A j \in DOMAIN call.sentences :
                    call.sentences[j][Len(call.sentences[j])] \notin Commas
        /\ isFirst =>
              \A st \in SplitSteps :
                  \A i \in st.startPos..(st.splitPos - 1) :
                      At(call.input, i) \notin Commas
        /\ (call.input = HiText /\ minLen = 1 /\ maxLen = 50) =>
              IF isFirst
              THEN /\ call.sentences # <<>>
                   /\ call.sentences[1] = <<"H", "i", ",">>
              ELSE call.sentences = <<HiText>>

CommaPassedOver ==
    /\ call.done
    /\ ~isFirst
    /\ \E j \in DOMAIN call.sentences :
          \E i \in 1..(Len(call.sentences[j]) - 1) : call.sentences[j][i] \in Commas

(* C8: every returned sentence is a trimmed contiguous piece of the text   *)
(* of at least minLen runes ending in an active separator, and the         *)
(* sentences lie in the text in their order, without overlap.              *)
AcceptanceRule ==
    call.done =>
        /\ \A j \in DOMAIN call.sentences :
              LET s == call.sentences[j]
              IN  /\ Len(s) >= minLen
                  /\ s[Len(s)] \in ActiveSet(isFirst)
                  /\ s[1] \notin Whitespace
                  /\ s[Len(s)] \notin Whitespace
        /\ Embeds(call.input, call.sentences, 1)

SentencesAndRejection ==
    /\ call.done
    /\ Len(call.sentences) >= 2
    /\ \E st \in SplitSteps :
          /\ ~st.accepted
          /\ st.segment # <<>>
          /\ st.segment[Len(st.segment)] \in ActiveSet(isFirst)

(* C9: a newline inside the window, met before any other split point and  *)
(* followed (after spaces and tabs) by a digit anywhere in the text, is    *)
(* the split point findNextSplitPoint returns.                             *)
ListItemNewlines(t, startPos, endPos, first) ==
    {i \in startPos..(endPos - 1) :
        /\ At(t, i) = "\n"
        /\ LET n == SkipBlanksFwd(t, i + 1, Len(t))
           IN  n < Len(t) /\ At(t, n) \in Digits
        /\ \A j \in startPos..(i - 1) :
              At(t, j) \notin (ActiveSet(first) \ {"\n"})}

ForcedNewlineSplit ==
    call.done =>
        \A st \in Steps :
            LET nls == ListItemNewlines(call.input, st.startPos,
                           WindowEnd(call.input, st.startPos, maxLen), isFirst)
            IN  nls # {} =>
                    st.splitPos = CHOOSE i \in nls : \A j \in nls : i <= j

(* C10: a candidate segment whose split point is a newline is never a      *)
(* sentence: trimmed, it does not end in an active separator; and no       *)
(* sentence ends in a newline.                                             *)
NewlineNeverEndsSentence ==
    call.done =>
        /\ \A st \in SplitSteps :
              At(call.input, st.splitPos) = "\n" =>
                  /\ ~st.accepted
                  /\ st.segment # <<>>
                  /\ st.segment[Len(st.segment)] \notin ActiveSet(isFirst)
        /\ \A j \in DOMAIN call.sentences :
              call.sentences[j][Len(call.sentences[j])] # "\n"

NewlineSplitInWindow ==
    /\ call.done
    /\ minLen = 1
    /\ \E st \in SplitSteps :
          /\ At(call.input, st.splitPos) = "\n"
          /\ st.splitPos < WindowEnd(call.input, st.startPos, maxLen)

-----------------------------------------------------------------------------
(* A streaming session: the text arrives in chunks *)

InitChunk ==
    /\ text \in TextsUpTo(ChunkAlphabet, MaxChunkTextLen)
    /\ minLen \in 1..MaxMinLen
    /\ maxLen \in 1..MaxWindow
    /\ isFirst = FALSE
    /\ SessionStart
    /\ eager = NoCall
    /\ PoolIdle

(* The caller appends the next n runes of text to the remainder it holds   *)
(* and calls ExtractSmartSentences on the result.                          *)
Feed(n) ==
    LET input == remaining \o SubSeq(text, fed + 1, fed + n)
        r == ExtractSmartSentences(input, minLen, maxLen, isFirst)
    IN  /\ call' = [input |-> input, sentences |-> r.sentences,
                    remaining |-> r.remaining, steps |-> r.steps, done |-> TRUE]
        /\ remaining' = r.remaining
        /\ emitted' = emitted \o r.sentences
        /\ fed' = fed + n
        /\ cuts' = IF fed + n < Len(text) THEN cuts \cup {fed + n} ELSE cuts
        /\ UNCHANGED <<text, minLen, maxLen, isFirst, eager>>
        /\ UNCHANGED poolVars

NextChunk == \E n \in 1..(Len(text) - fed) : Feed(n)

SpecChunk == InitChunk /\ [][NextChunk]_vars

(* First digit of the ordinal prefix that ends in the period at pos *)
OrdinalStart(t, pos) ==
    CountDigitsBack(t, SkipBlanksBack(t, pos - 1), 0).start + 1

(* A cut before index c falls inside a digit-run-plus-period prefix *)
CutInsideOrdinal(t, c) ==
    \E pos \in 0..(Len(t) - 1) :
        /\ isNumberPrefix(t, pos)
        /\ OrdinalStart(t, pos) < c
        /\ c <= pos

(* C4: once the whole text has been fed in chunks, none cut inside an      *)
(* ordinal prefix, the sentences of all calls together are those of one    *)
(* call on the whole text.                                                 *)
ChunkingEquivalence ==
    ( /\ call.done
      /\ fed = Len(text)
      /\ ~isFirst
      /\ \A c \in cuts : ~CutInsideOrdinal(text, c) )
    => emitted = ExtractSmartSentences(text, minLen, maxLen, FALSE).sentences

-----------------------------------------------------------------------------
(* One call of ExtractCompleteSentences *)

InitEager ==
    /\ text \in TextsUpTo(EagerAlphabet, MaxEagerLen)
                    \cup {HelloWorldText, HelloText}
    /\ minLen = 1
    /\ maxLen = 1
    /\ isFirst = FALSE
    /\ SessionStart
    /\ eager = NoCall
    /\ PoolIdle

Eager ==
    /\ ~eager.done
    /\ LET r == ExtractCompleteSentences(text)
       IN  eager' = [input |-> text, sentences |-> r.sentences,
                     remaining |-> r.remaining, steps |-> <<>>, done |-> TRUE]
    /\ UNCHANGED sessionVars
    /\ UNCHANGED poolVars

NextEager == Eager

SpecEager == InitEager /\ [][NextEager]_vars

Trimmed(s) == TrimRight(TrimLeft(s, Whitespace), Whitespace)

(* The eager result on eager.input is the split at every rune of          *)
(* terminals: each piece up to and including a terminal, trimmed, is a     *)
(* sentence if it is not empty, whatever its length; the remainder is the  *)
(* trimmed text after the last terminal and holds no terminal.             *)
EagerSplitsAt(terminals) ==
    LET t == eager.input
        ends == {i \in 1..Len(t) : t[i] \in terminals}
        Max(S) == CHOOSE i \in S : \A j \in S : j <= i
        prev(i) == Max({0} \cup {j \in ends : j < i})
        piece(i) == Trimmed(SubSeq(t, prev(i) + 1, i))
        kept == {i \in ends : piece(i) # <<>>}
        nth(k) == CHOOSE i \in kept : Cardinality({j \in kept : j <= i}) = k
    IN  /\ Len(eager.sentences) = Cardinality(kept)
        /\ \A k \in 1..Cardinality(kept) : eager.sentences[k] = piece(nth(k))
        /\ eager.remaining = Trimmed(SubSeq(t, Max({0} \cup ends) + 1, Len(t)))
        /\ \A i \in DOMAIN eager.remaining : eager.remaining[i] \notin terminals

EagerExamples ==
    /\ eager.input = HelloWorldText =>
          eager.sentences = <<HelloWorldText>> /\ eager.remaining = <<>>
    /\ eager.input = HelloText =>
          eager.sentences = <<>> /\ eager.remaining = HelloText

(* C6 as stated: the terminal set is period, question mark, exclamation    *)
(* mark, semicolon and colon, ASCII and full-width, plus newline.          *)
EagerSplitsAtEveryTerminal ==
    eager.done =>
        /\ EagerSplitsAt({".", "U+3002", "?", "U+FF1F", "!", "U+FF01",
                          ";", "U+FF1B", ":", "U+FF1A", "\n"})
        /\ EagerExamples

(* C6 as amended: the terminal set is period, question mark and            *)
(* exclamation mark, ASCII and full-width, plus newline; semicolon and     *)
(* colon end no segment.                                                   *)
EagerSplitsAtSentenceEnd ==
    eager.done =>
        /\ EagerSplitsAt({".", "U+3002", "?", "U+FF1F", "!", "U+FF01", "\n"})
        /\ EagerExamples

EagerSplitWithPause ==
    /\ eager.done
    /\ Len(eager.sentences) >= 2
    /\ \E j \in DOMAIN eager.sentences :
          \E i \in DOMAIN eager.sentences[j] :
              eager.sentences[j][i] \in {";", "U+FF1A"}
    /\ eager.remaining # <<>>

-----------------------------------------------------------------------------
(* Concurrent calls of ExtractSmartSentences sharing the two pools *)

JobTexts == {<<"a", ".">>, <<"a", ".", "a">>}

InitPool ==
    /\ text = <<>>
    /\ minLen = 1
    /\ maxLen = 1
    /\ isFirst = FALSE
    /\ SessionStart
    /\ eager = NoCall
    /\ PoolIdle

(* A goroutine enters ExtractSmartSentences *)
Enter(g) ==
    /\ pc[g] = "idle"
    /\ \E t \in JobTexts : job' = [job EXCEPT ![g] = [text |-> t, exit |-> "none"]]
    /\ pc' = [pc EXCEPT ![g] = "getBuilder"]
    /\ UNCHANGED <<builder, tempRunesPtr, builderPool, runeSlicePool, allocated, puts>>

(* sync.Pool.Get: an item of the pool, taken out of it, or a new one *)
PoolAfterGet(pool, item) == pool \ {item}

GetBuilder(g) ==
    /\ pc[g] = "getBuilder"
    /\ \/ \E b \in builderPool :
             /\ builder' = [builder EXCEPT ![g] = b]
             /\ builderPool' = PoolAfterGet(builderPool, b)
             /\ UNCHANGED allocated
       \/ /\ allocated.builders < MaxBuffers
          /\ builder' = [builder EXCEPT ![g] = allocated.builders + 1]
          /\ allocated' = [allocated EXCEPT !.builders = @ + 1]
          /\ UNCHANGED builderPool
    /\ pc' = [pc EXCEPT ![g] = "getRunes"]
    /\ UNCHANGED <<job, tempRunesPtr, runeSlicePool, puts>>

GetRunes(g) ==
    /\ pc[g] = "getRunes"
    /\ \/ \E r \in runeSlicePool :
             /\ tempRunesPtr' = [tempRunesPtr EXCEPT ![g] = r]
             /\ runeSlicePool' = PoolAfterGet(runeSlicePool, r)
             /\ UNCHANGED allocated
       \/ /\ allocated.slices < MaxBuffers
          /\ tempRunesPtr' = [tempRunesPtr EXCEPT ![g] = allocated.slices + 1]
          /\ allocated' = [allocated EXCEPT !.slices = @ + 1]
          /\ UNCHANGED runeSlicePool
    /\ pc' = [pc EXCEPT ![g] = "loop"]
    /\ UNCHANGED <<job, builder, builderPool, puts>>

(* The deferred Puts run however the function is left *)
RunsDeferredOnReturnOnly(exit) == exit = "return"

RunsDeferred(exit) == exit \in {"break", "return"}

(* The loop: left by the break of the no-split-point branch or by its      *)
(* condition; both reach the return statement.                             *)
Loop(g) ==
    /\ pc[g] = "loop"
    /\ LET r == ExtractSmartSentences(job[g].text, 1, 1, FALSE)
           exit == IF r.steps # <<>> /\ r.steps[Len(r.steps)].splitPos = -1
                   THEN "break" ELSE "return"
       IN  /\ job' = [job EXCEPT ![g].exit = exit]
           /\ pc' = [pc EXCEPT ![g] = IF RunsDeferred(exit) THEN "putRunes"
                                                            ELSE "done"]
    /\ UNCHANGED <<builder, tempRunesPtr, builderPool, runeSlicePool, allocated, puts>>

(* defer runeSlicePool.Put(tempRunesPtr): deferred last, run first *)
PutRunes(g) ==
    /\ pc[g] = "putRunes"
    /\ runeSlicePool' = runeSlicePool \cup {tempRunesPtr[g]}
    /\ puts' = [puts EXCEPT ![g].slice = @ + 1]
    /\ pc' = [pc EXCEPT ![g] = "putBuilder"]
    /\ UNCHANGED <<job, builder, tempRunesPtr, builderPool, allocated>>

(* defer builderPool.Put(builder) *)
PutBuilder(g) ==
    /\ pc[g] = "putBuilder"
    /\ builderPool' = builderPool \cup {builder[g]}
    /\ puts' = [puts EXCEPT ![g].builder = @ + 1]
    /\ pc' = [pc EXCEPT ![g] = "done"]
    /\ UNCHANGED <<job, builder, tempRunesPtr, runeSlicePool, allocated>>

(* sync.Pool may drop an item it stores at any time *)
Collect ==
    /\ \/ \E b \in builderPool :
             builderPool' = builderPool \ {b} /\ UNCHANGED runeSlicePool
       \/ \E r \in runeSlicePool :
             runeSlicePool' = runeSlicePool \ {r} /\ UNCHANGED builderPool
    /\ UNCHANGED <<pc, job, builder, tempRunesPtr, allocated, puts>>

NextPool ==
    /\ \/ \E g \in Goroutines : Enter(g)
       \/ \E g \in Goroutines : GetBuilder(g)
       \/ \E g \in Goroutines : GetRunes(g)
       \/ \E g \in Goroutines : Loop(g)
       \/ \E g \in Goroutines : PutRunes(g)
       \/ \E g \in Goroutines : PutBuilder(g)
       \/ Collect
    /\ UNCHANGED sessionVars
    /\ UNCHANGED eager

SpecPool == InitPool /\ [][NextPool]_vars

HoldsBuilder(g) == pc[g] \in {"getRunes", "loop", "putRunes", "putBuilder"}

HoldsRunes(g) == pc[g] \in {"loop", "putRunes"}

(* C7: no two calls in flight hold the same builder or the same rune       *)
(* slice, a held buffer lies in no pool, and a call that has ended, by     *)
(* either exit, has put each of its two buffers back exactly once.         *)
ScratchExclusive ==
    /\ \A g, h \in Goroutines :
          g # h =>
             /\ (HoldsBuilder(g) /\ HoldsBuilder(h)) => builder[g] # builder[h]
             /\ (HoldsRunes(g) /\ HoldsRunes(h)) => tempRunesPtr[g] # tempRunesPtr[h]
    /\ \A g \in Goroutines :
          /\ HoldsBuilder(g) => builder[g] \notin builderPool
          /\ HoldsRunes(g) => tempRunesPtr[g] \notin runeSlicePool
          /\ pc[g] \in {"getRunes", "loop"} => puts[g] = [builder |-> 0, slice |-> 0]
          /\ pc[g] = "done" =>
                /\ job[g].exit \in {"break", "return"}
                /\ puts[g] = [builder |-> 1, slice |-> 1]

ReuseWhileInFlight ==
    \E g, h \in Goroutines :
        /\ pc[g] = "putBuilder"
        /\ job[g].exit = "break"
        /\ pc[h] = "loop"
        /\ tempRunesPtr[h] = tempRunesPtr[g]
        /\ builder[h] # builder[g]

====
